---- MODULE Spec2Model ----
(***************************************************************************)
(* SmartNotes storage engine (src/app/database.py): the folders, notes,    *)
(* tags and note_tags tables, the notes_fts index kept by the notes_ai /   *)
(* notes_ad / notes_au triggers, and the public methods of Database.       *)
(*                                                                         *)
(* Text values (folder names, tag names, titles, contents) are sequences   *)
(* of one-character strings, so that str.strip() and case folding are      *)
(* computed and not assumed.  SQL NULL is the id 0 (AUTOINCREMENT ids      *)
(* start at 1).  The tables are the view of the single sqlite3 connection  *)
(* the Database object holds; disk is what its last commit() persisted.    *)
(***************************************************************************)
EXTENDS Integers, Sequences, FiniteSets, Bags, TLC

VARIABLES
    folders,      \* folders table: id -> name
    folders_seq,  \* sqlite_sequence row of folders (AUTOINCREMENT)
    notes,        \* notes table: id -> [folder_id, title, content, created_at, updated_at]
    notes_seq,    \* sqlite_sequence row of notes
    tags,         \* tags table: id -> name
    tags_seq,     \* sqlite_sequence row of tags
    note_tags,    \* note_tags table: set of <<note_id, tag_id>> (the primary key)
    notes_fts,    \* notes_fts index: bag of <<rowid, title, content>> entries
    now,          \* int(time.time())
    pc,           \* where the set_note_tags call in progress stands, or "idle"
    disk,         \* the tags, sqlite_sequence row and links as of the last commit()
    last,         \* the last Database method called, its arguments and outcome
    app,          \* SmartNotesApp: selected note and folder, editor fields, UI thread
    timers,       \* the threading.Timer threads of the Debouncer that have not ended
    trace,        \* what the Debouncer did so far: its calls, firings and invocations
    api,          \* OpenRouterClient: key, model, last_error and the _chat in progress
    splitter      \* SplitterManager: left, mid, right

vars == <<folders, folders_seq, notes, notes_seq, tags, tags_seq,
          note_tags, notes_fts, now, pc, disk, last, app, timers, trace, api, splitter>>

tables == <<folders, folders_seq, notes, notes_seq, tags, tags_seq,
            note_tags, notes_fts>>

\* the state outside the Database object: the window, its timers and the AI client
gui == <<app, timers, trace, api, splitter>>

\* the Database object: its tables, clock, call in progress, file and last call
database == <<tables, now, pc, disk, last>>

----------------------------------------------------------------------------
(* Bounds of the model *)

MaxFolders == 2   \* folder ids handed out
MaxNotes == 2     \* note ids handed out
MaxTags == 3      \* tag ids handed out
MaxNames == 2     \* length of a tag_names argument
MaxTime == 1      \* clock ticks
MaxCalls == 3     \* Debouncer.call invocations
MaxEdits == 2     \* changes the user makes to the editor fields

NULL == 0

FolderIds == 1..MaxFolders
NoteIds == 1..MaxNotes
\* ids a caller may pass: handed out already, deleted since, or not handed out yet
FolderArgs == FolderIds
NoteArgs == NoteIds

FolderNames == {<<"a">>, <<"A">>, <<"b">>}
Titles == {<<>>, <<"a">>}
Contents == {<<>>, <<"b">>}
TagNameInputs == {<<"a">>, <<" ", "A", " ">>, <<" ">>}

RECURSIVE SeqsUpTo(_, _)
SeqsUpTo(S, n) ==
    IF n = 0 THEN {<<>>}
    ELSE LET shorter == SeqsUpTo(S, n - 1)
         IN  shorter \cup {Append(s, x) : s \in shorter, x \in S}

TagNameLists == SeqsUpTo(TagNameInputs, MaxNames)

----------------------------------------------------------------------------
(* Text helpers *)

IsSpace(c) == c = " "

RECURSIVE lstrip(_)
lstrip(s) == IF s # <<>> /\ IsSpace(Head(s)) THEN lstrip(Tail(s)) ELSE s

RECURSIVE rstrip(_)
rstrip(s) ==
    IF s # <<>> /\ IsSpace(s[Len(s)]) THEN rstrip(SubSeq(s, 1, Len(s) - 1)) ELSE s

\* str.strip()
strip(s) == rstrip(lstrip(s))

\* ASCII case folding, as COLLATE NOCASE compares
LowerChar(c) == CASE c = "A" -> "a" [] c = "B" -> "b" [] OTHER -> c

Lower(s) == [i \in 1..Len(s) |-> LowerChar(s[i])]

EqNoCase(s, t) == Lower(s) = Lower(t)

\* the code point of a character
Code(c) ==
    CASE c = " " -> 32 [] c = "\"" -> 34 [] c = "A" -> 65 [] c = "B" -> 66
      [] c = "a" -> 97 [] c = "b" -> 98

\* ORDER BY name with no collation: names compared by code point
RECURSIVE binary_less(_, _)
binary_less(x, y) ==
    IF y = <<>> THEN FALSE
    ELSE IF x = <<>> THEN TRUE
    ELSE IF Head(x) # Head(y) THEN Code(Head(x)) < Code(Head(y))
    ELSE binary_less(Tail(x), Tail(y))

\* x sorts before y under COLLATE NOCASE: compared by code point, A-Z folded to a-z
RECURSIVE nocase_less(_, _)
nocase_less(x, y) ==
    IF y = <<>> THEN FALSE
    ELSE IF x = <<>> THEN TRUE
    ELSE IF LowerChar(Head(x)) # LowerChar(Head(y))
         THEN Code(LowerChar(Head(x))) < Code(LowerChar(Head(y)))
    ELSE nocase_less(Tail(x), Tail(y))

----------------------------------------------------------------------------
(* Initial state: Database(path) on a new file, after _init_schema *)

\* Tag names linked to a note, and the number of tags no note links to
names_of(note_id) == {tags[l[2]] : l \in {k \in note_tags : k[1] = note_id}}

unlinked == Cardinality({t \in DOMAIN tags : \A l \in note_tags : l[2] # t})

NoCall ==
    [op |-> "init", id |-> NULL, arg |-> <<>>, ok |-> TRUE, again |-> FALSE,
     had |-> {}, orphans |-> 0, ret |-> <<>>, tags |-> <<>>]

\* The record of a call: the method, its id argument, its other arguments, whether it
\* returned (ok) or raised, whether it repeats the call before it, and what the store
\* held when it was made: the tag names of the note (calls on a note's tags) and the
\* number of unlinked tags; ret is the list a search returned (note ids, in order)
\* and tags the 'tags' field of each of its rows
Called(op, id, arg, ok) ==
    [op |-> op, id |-> id, arg |-> arg, ok |-> ok,
     again |-> (last.op = op /\ last.id = id /\ last.arg = arg),
     had |-> IF op \in {"set_note_tags", "delete_note"} THEN names_of(id) ELSE {},
     orphans |-> IF op \in {"set_note_tags", "delete_note"} THEN unlinked ELSE 0,
     ret |-> <<>>, tags |-> <<>>]

\* no set_note_tags call is in progress
Idle == [at |-> "idle"]

\* self.conn.commit(): what the connection holds becomes what the file holds. Every
\* other table is written and committed within one step, so that its committed value
\* is its value in the connection; tags and links are also written by a set_note_tags
\* that raises before its commit()
commit ==
    /\ disk' = [tags |-> tags', tags_seq |-> tags_seq', note_tags |-> note_tags']
    /\ UNCHANGED pc

\* the method raised before its commit(), or only reads
no_commit == UNCHANGED <<pc, disk>>

\* SmartNotesApp.__init__: no folder and no note selected, empty editor fields; at is
\* where the UI thread stands inside _select_note ("idle" between handlers). Two
\* fields record history: shown, the note whose title and content _select_note last
\* loaded into the editor fields, and typed, for each note the editor text after the
\* latest change the user made to the fields while that note was selected
SmartNotesApp ==
    [current_folder_id |-> NULL, selected_note_id |-> NULL,
     title_field |-> <<>>, content_field |-> <<>>, at |-> "idle",
     shown |-> NULL, typed |-> <<>>]

PRIMARY_MODEL == "meituan/longcat-flash-chat:free"

FALLBACK_MODELS ==
    <<"x-ai/grok-4.1-fast:free", "google/gemini-2.0-flash-exp:free",
      "openai/gpt-oss-20b:free">>

\* Python's None where the other values are strings
None == "None"

\* _chat is not running
NoChat == [at |-> "idle"]

\* OpenRouterClient(api_key) with the key setting of a new database (none): the
\* fields of the client (client: whether self.client is an OpenAI object), the _chat
\* call in progress, how the last _chat ended ("-": none has ended, "text", "None",
\* or the exception it raised) and the attempts it made, as <<round, model>>
OpenRouterClient ==
    [api_key |-> <<>>, client |-> FALSE, model |-> PRIMARY_MODEL, last_error |-> None,
     chat |-> NoChat, returned |-> "-", tried |-> <<>>]

\* SplitterManager.__init__, then _init_flex with no saved setting
SplitterManager == [left |-> 100, mid |-> 100, right |-> 100]

Init ==
    /\ folders = <<>>
    /\ folders_seq = 0
    /\ notes = <<>>
    /\ notes_seq = 0
    /\ tags = <<>>
    /\ tags_seq = 0
    /\ note_tags = {}
    /\ notes_fts = EmptyBag
    /\ now = 0
    /\ pc = Idle
    /\ disk = [tags |-> <<>>, tags_seq |-> 0, note_tags |-> {}]
    /\ last = NoCall
    /\ app = SmartNotesApp
    /\ timers = <<>>
    /\ trace = <<>>
    /\ api = OpenRouterClient
    /\ splitter = SplitterManager

----------------------------------------------------------------------------
(* Rows and SQL building blocks *)

\* create_note that stamps only created_at: updated_at left at 0
Row_no_updated_at(folder_id, title, content, created_at, updated_at) ==
    [folder_id |-> folder_id, title |-> title, content |-> content,
     created_at |-> created_at, updated_at |-> 0]

\* a row whose created_at is stamped with the time of the write, as updated_at is
Row_created_now(folder_id, title, content, created_at, updated_at) ==
    [folder_id |-> folder_id, title |-> title, content |-> content,
     created_at |-> updated_at, updated_at |-> updated_at]

Row(folder_id, title, content, created_at, updated_at) ==
    [folder_id |-> folder_id, title |-> title, content |-> content,
     created_at |-> created_at, updated_at |-> updated_at]

Entry(rowid, title, content) == SetToBag({<<rowid, title, content>>})

\* f without the row of key k
Without(f, k) == [i \in DOMAIN f \ {k} |-> f[i]]

\* INSERT INTO notes_fts(rowid, title, content) VALUES (...)
fts_insert(fts, rowid, title, content) == fts (+) Entry(rowid, title, content)

\* INSERT INTO notes_fts(notes_fts, rowid, title, content) VALUES('delete', ...)
fts_delete(fts, rowid, title, content) == fts (-) Entry(rowid, title, content)

\* TRIGGER notes_ai AFTER INSERT ON notes
notes_ai(fts, id, new) == fts_insert(fts, id, new.title, new.content)

\* TRIGGER notes_ad AFTER DELETE ON notes
notes_ad(fts, id, old) == fts_delete(fts, id, old.title, old.content)

\* notes_au without its 'delete' row: the old entry stays in the index
notes_au_insert_only(fts, id, old, new) == fts_insert(fts, id, new.title, new.content)

\* TRIGGER notes_au AFTER UPDATE ON notes
notes_au(fts, id, old, new) ==
    fts_insert(fts_delete(fts, id, old.title, old.content), id, new.title, new.content)

\* notes_au fired once for every updated row (ids), from its old to its new values
RECURSIVE notes_au_each(_, _, _, _)
notes_au_each(fts, ids, old_notes, new_notes) ==
    IF ids = {} THEN fts
    ELSE LET id == CHOOSE i \in ids : TRUE
         IN  notes_au_each(notes_au(fts, id, old_notes[id], new_notes[id]),
                           ids \ {id}, old_notes, new_notes)

\* the reference as it is without PRAGMA foreign_keys=ON: never checked
folder_fk_off(fs, folder_id) == TRUE

\* notes.folder_id REFERENCES folders(id), checked with PRAGMA foreign_keys=ON
folder_fk_ok(fs, folder_id) == folder_id = NULL \/ folder_id \in DOMAIN fs

\* folders.name / tags.name TEXT UNIQUE: the default BINARY collation, exact equality
name_taken(table, name, except) ==
    \E i \in DOMAIN table : i # except /\ table[i] = name

\* note_tags.note_id without ON DELETE CASCADE: the links of a deleted note stay
cascade_note_off(links, note_id) == links

\* note_tags.note_id REFERENCES notes(id) ON DELETE CASCADE
cascade_note(links, note_id) == {l \in links : l[1] # note_id}

\* notes.folder_id REFERENCES folders(id) ON DELETE SET NULL
\* delete_folder whose UPDATE has no WHERE clause: every note loses its folder
set_null_folder_all(ns, folder_id) ==
    [i \in DOMAIN ns |-> [ns[i] EXCEPT !.folder_id = NULL]]

set_null_folder(ns, folder_id) ==
    [i \in DOMAIN ns |->
        IF ns[i].folder_id = folder_id THEN [ns[i] EXCEPT !.folder_id = NULL] ELSE ns[i]]

----------------------------------------------------------------------------
(* Folder operations *)

\* create_folder that checks the name only after the row is stored
create_folder_insert_first(name) ==
    /\ folders_seq < MaxFolders
    /\ folders' = folders @@ ((folders_seq + 1) :> name)
    /\ folders_seq' = folders_seq + 1
    /\ last' = Called("create_folder", NULL, name, ~name_taken(folders, name, NULL))
    /\ UNCHANGED <<notes, notes_seq, tags, tags_seq, note_tags, notes_fts, now>>
    /\ commit

create_folder(name) ==
    IF name_taken(folders, name, NULL)
    THEN \* sqlite3.IntegrityError: UNIQUE constraint failed
         /\ last' = Called("create_folder", NULL, name, FALSE)
         /\ UNCHANGED <<tables, now>>
         /\ no_commit
    ELSE /\ folders_seq < MaxFolders
         /\ folders' = folders @@ ((folders_seq + 1) :> name)
         /\ folders_seq' = folders_seq + 1
         /\ last' = Called("create_folder", folders_seq + 1, name, TRUE)
         /\ UNCHANGED <<notes, notes_seq, tags, tags_seq, note_tags, notes_fts, now>>
         /\ commit

rename_folder(folder_id, name) ==
    IF folder_id \in DOMAIN folders /\ name_taken(folders, name, folder_id)
    THEN /\ last' = Called("rename_folder", folder_id, name, FALSE)
         /\ UNCHANGED <<tables, now>>
         /\ no_commit
    ELSE /\ folders' = [i \in DOMAIN folders |-> IF i = folder_id THEN name ELSE folders[i]]
         /\ last' = Called("rename_folder", folder_id, name, TRUE)
         /\ UNCHANGED <<folders_seq, notes, notes_seq, tags, tags_seq, note_tags,
                        notes_fts, now>>
         /\ commit

delete_folder(folder_id) ==
    LET hit == IF folder_id \in DOMAIN folders
               THEN {i \in DOMAIN notes : notes[i].folder_id = folder_id} ELSE {}
        ns == IF folder_id \in DOMAIN folders THEN set_null_folder(notes, folder_id)
              ELSE notes
    IN  /\ folders' = Without(folders, folder_id)
        /\ notes' = ns
        /\ notes_fts' = notes_au_each(notes_fts, hit, notes, ns)
        /\ last' = Called("delete_folder", folder_id, <<>>, TRUE)
        /\ UNCHANGED <<folders_seq, notes_seq, tags, tags_seq, note_tags, now>>
        /\ commit

----------------------------------------------------------------------------
(* Note operations *)

create_note(folder_id, title) ==
    IF ~folder_fk_ok(folders, folder_id)
    THEN \* sqlite3.IntegrityError: FOREIGN KEY constraint failed
         /\ last' = Called("create_note", NULL, title, FALSE)
         /\ UNCHANGED <<tables, now>>
         /\ no_commit
    ELSE LET id == notes_seq + 1
             new == Row(folder_id, title, <<>>, now, now)
         IN  /\ notes_seq < MaxNotes
             /\ notes' = notes @@ (id :> new)
             /\ notes_seq' = id
             /\ notes_fts' = notes_ai(notes_fts, id, new)
             /\ last' = Called("create_note", id, title, TRUE)
             /\ UNCHANGED <<folders, folders_seq, tags, tags_seq, note_tags, now>>
             /\ commit

\* update_note whose UPDATE leaves folder_id out of its SET list
update_note_keep_folder(note_id, title, content, folder_id) ==
    LET hit == {note_id} \cap DOMAIN notes
        ns == [i \in DOMAIN notes |->
                 IF i = note_id
                 THEN Row(notes[i].folder_id, title, content, notes[i].created_at, now)
                 ELSE notes[i]]
    IN  /\ notes' = ns
        /\ notes_fts' = notes_au_each(notes_fts, hit, notes, ns)
        /\ last' = Called("update_note", note_id, <<title, content>>, TRUE)
        /\ UNCHANGED <<folders, folders_seq, notes_seq, tags, tags_seq, note_tags, now>>
        /\ commit

update_note(note_id, title, content, folder_id) ==
    IF note_id \in DOMAIN notes /\ ~folder_fk_ok(folders, folder_id)
    THEN /\ last' = Called("update_note", note_id, <<title, content>>, FALSE)
         /\ UNCHANGED <<tables, now>>
         /\ no_commit
    ELSE LET hit == {note_id} \cap DOMAIN notes
             ns == [i \in DOMAIN notes |->
                      IF i = note_id
                      THEN Row(folder_id, title, content, notes[i].created_at, now)
                      ELSE notes[i]]
         IN  /\ notes' = ns
             /\ notes_fts' = notes_au_each(notes_fts, hit, notes, ns)
             /\ last' = Called("update_note", note_id, <<title, content>>, TRUE)
             /\ UNCHANGED <<folders, folders_seq, notes_seq, tags, tags_seq, note_tags, now>>
             /\ commit

delete_note(note_id) ==
    /\ notes' = Without(notes, note_id)
    /\ notes_fts' = IF note_id \in DOMAIN notes
                    THEN notes_ad(notes_fts, note_id, notes[note_id]) ELSE notes_fts
    /\ note_tags' = IF note_id \in DOMAIN notes
                    THEN cascade_note(note_tags, note_id) ELSE note_tags
    /\ last' = Called("delete_note", note_id, <<>>, TRUE)
    /\ UNCHANGED <<folders, folders_seq, notes_seq, tags, tags_seq, now>>
    /\ commit

\* move_note whose UPDATE sets folder_id alone: updated_at is not refreshed
move_note_no_stamp(note_id, to_folder_id) ==
    IF note_id \in DOMAIN notes /\ ~folder_fk_ok(folders, to_folder_id)
    THEN /\ last' = Called("move_note", note_id, <<>>, FALSE)
         /\ UNCHANGED <<tables, now>>
         /\ no_commit
    ELSE LET hit == {note_id} \cap DOMAIN notes
             ns == [i \in DOMAIN notes |->
                      IF i = note_id
                      THEN [notes[i] EXCEPT !.folder_id = to_folder_id]
                      ELSE notes[i]]
         IN  /\ notes' = ns
             /\ notes_fts' = notes_au_each(notes_fts, hit, notes, ns)
             /\ last' = Called("move_note", note_id, <<>>, TRUE)
             /\ UNCHANGED <<folders, folders_seq, notes_seq, tags, tags_seq, note_tags, now>>
             /\ commit

move_note(note_id, to_folder_id) ==
    IF note_id \in DOMAIN notes /\ ~folder_fk_ok(folders, to_folder_id)
    THEN /\ last' = Called("move_note", note_id, <<>>, FALSE)
         /\ UNCHANGED <<tables, now>>
         /\ no_commit
    ELSE LET hit == {note_id} \cap DOMAIN notes
             ns == [i \in DOMAIN notes |->
                      IF i = note_id
                      THEN [notes[i] EXCEPT !.folder_id = to_folder_id, !.updated_at = now]
                      ELSE notes[i]]
         IN  /\ notes' = ns
             /\ notes_fts' = notes_au_each(notes_fts, hit, notes, ns)
             /\ last' = Called("move_note", note_id, <<>>, TRUE)
             /\ UNCHANGED <<folders, folders_seq, notes_seq, tags, tags_seq, note_tags, now>>
             /\ commit

----------------------------------------------------------------------------
(* Tag operations *)

\* tag_names = [n.strip() for n in tag_names if n.strip()]
RECURSIVE clean_names(_)
clean_names(tag_names) ==
    IF tag_names = <<>> THEN <<>>
    ELSE IF strip(Head(tag_names)) # <<>>
         THEN <<strip(Head(tag_names))>> \o clean_names(Tail(tag_names))
         ELSE clean_names(Tail(tag_names))

\* SELECT id FROM tags WHERE name=?
tag_id_by_name(tg, name) == CHOOSE i \in DOMAIN tg : tg[i] = name

\* the loop with the IntegrityError swallowed: an existing tag is not looked up
RECURSIVE insert_tags_no_lookup(_, _, _, _)
insert_tags_no_lookup(names, tg, seq, tag_ids) ==
    IF names = <<>> THEN [tags |-> tg, seq |-> seq, tag_ids |-> tag_ids]
    ELSE LET name == Head(names)
         IN  IF name_taken(tg, name, NULL)
             THEN insert_tags_no_lookup(Tail(names), tg, seq, tag_ids)
             ELSE insert_tags_no_lookup(Tail(names), tg @@ ((seq + 1) :> name), seq + 1,
                                        Append(tag_ids, seq + 1))

\* the loop over tag_names: INSERT INTO tags, on IntegrityError look the id up
RECURSIVE insert_tags(_, _, _, _)
insert_tags(names, tg, seq, tag_ids) ==
    IF names = <<>> THEN [tags |-> tg, seq |-> seq, tag_ids |-> tag_ids]
    ELSE LET name == Head(names)
         IN  IF name_taken(tg, name, NULL)
             THEN insert_tags(Tail(names), tg, seq,
                              Append(tag_ids, tag_id_by_name(tg, name)))
             ELSE insert_tags(Tail(names), tg @@ ((seq + 1) :> name), seq + 1,
                              Append(tag_ids, seq + 1))

\* set_note_tags without its DELETE: the new links are merged into the old ones
delete_links_off(links, note_id) == links

\* DELETE FROM note_tags WHERE note_id=?
\* DELETE FROM note_tags without its WHERE clause: the links of every note go
delete_links_all(links, note_id) == {}

delete_links(links, note_id) == {l \in links : l[1] # note_id}

\* INSERT OR IGNORE INTO note_tags(note_id, tag_id) for every tid in tag_ids
insert_links(links, note_id, tag_ids) ==
    links \cup {<<note_id, tag_ids[i]>> : i \in 1..Len(tag_ids)}

\* set_note_tags without the sweep: unlinked tags stay
unused_kept(tg, links) == tg

\* DELETE FROM tags WHERE id NOT IN (SELECT tag_id FROM note_tags)
unused_swept(tg, links) ==
    [i \in {t \in DOMAIN tg : t \in {l[2] : l \in links}} |-> tg[i]]

\* note_tags.tag_id REFERENCES tags(id) ON DELETE CASCADE
cascade_tag(links, tg) == {l \in links : l[2] \in DOMAIN tg}

clean_unused_tags ==
    /\ tags' = unused_swept(tags, note_tags)
    /\ note_tags' = cascade_tag(note_tags, tags')
    /\ last' = Called("clean_unused_tags", NULL, <<>>, TRUE)
    /\ UNCHANGED <<folders, folders_seq, notes, notes_seq, tags_seq, notes_fts, now>>
    /\ commit

set_note_tags(note_id, tag_names) ==
    LET ins == insert_tags(clean_names(tag_names), tags, tags_seq, <<>>)
        cleared == delete_links(note_tags, note_id)
    IN  /\ ins.seq <= MaxTags
        /\ tags_seq' = ins.seq
        /\ IF ins.tag_ids # <<>> /\ note_id \notin DOMAIN notes
           THEN \* sqlite3.IntegrityError: FOREIGN KEY constraint failed, raised by
                \* the first INSERT into note_tags; neither commit() nor the sweep run
                /\ tags' = ins.tags
                /\ note_tags' = cleared
                /\ last' = Called("set_note_tags", note_id, tag_names, FALSE)
                /\ no_commit
           ELSE LET linked == insert_links(cleared, note_id, ins.tag_ids)
                    swept == unused_swept(ins.tags, linked)
                IN  /\ tags' = swept
                    /\ note_tags' = cascade_tag(linked, swept)
                    /\ last' = Called("set_note_tags", note_id, tag_names, TRUE)
                    /\ commit
        /\ UNCHANGED <<folders, folders_seq, notes, notes_seq, notes_fts, now>>

----------------------------------------------------------------------------
(* Reads *)

\* SELECT t.id, t.name, COUNT(nt.note_id) ... LEFT JOIN note_tags GROUP BY t.id
all_tags ==
    {[id |-> t, name |-> tags[t],
      usage_count |-> Cardinality({l \in note_tags : l[2] = t})] : t \in DOMAIN tags}

list_folders == {[id |-> f, name |-> folders[f]] : f \in DOMAIN folders}

\* the names of list_note_tags(note_id): tags JOIN note_tags WHERE nt.note_id=?
list_note_tags(note_id) ==
    {[id |-> t, name |-> tags[t]] :
        t \in {i \in DOMAIN tags : <<note_id, i>> \in note_tags}}

\* the rows of list_note_tags(note_id) in the orders ORDER BY t.name COLLATE NOCASE
\* allows: names equal under NOCASE come in an order the statement does not fix
list_note_tags_rows(note_id) ==
    LET rows == list_note_tags(note_id)
    IN  {r \in [1..Cardinality(rows) -> rows] :
            /\ \A i, j \in DOMAIN r : r[i] = r[j] => i = j
            /\ \A i, j \in DOMAIN r : i < j => ~nocase_less(r[j].name, r[i].name)}

counts ==
    [notes |-> Cardinality(DOMAIN notes), folders |-> Cardinality(DOMAIN folders),
     tags |-> Cardinality(DOMAIN tags)]

----------------------------------------------------------------------------
(* set_note_tags step by step, a reader on the same connection, and a restart *)

\* the tags and links held by the connection
view == [tags |-> tags, tags_seq |-> tags_seq, note_tags |-> note_tags]

\* set_note_tags up to its commit(): the tag loop, the DELETE and the INSERTs of links
set_note_tags_write(note_id, tag_names) ==
    LET ins == insert_tags(clean_names(tag_names), tags, tags_seq, <<>>)
        cleared == delete_links(note_tags, note_id)
        linked == insert_links(cleared, note_id, ins.tag_ids)
        swept == unused_swept(ins.tags, linked)
    IN  /\ pc = Idle
        /\ ins.seq <= MaxTags
        /\ tags_seq' = ins.seq
        /\ tags' = ins.tags
        /\ IF ins.tag_ids # <<>> /\ note_id \notin DOMAIN notes
           THEN \* sqlite3.IntegrityError: the call ends here
                /\ note_tags' = cleared
                /\ last' = Called("set_note_tags", note_id, tag_names, FALSE)
                /\ pc' = pc
           ELSE /\ note_tags' = linked
                /\ pc' = [at |-> "commit",
                          call |-> Called("set_note_tags", note_id, tag_names, TRUE),
                          before |-> view,
                          committed |-> disk,
                          after |-> [tags |-> swept, tags_seq |-> ins.seq,
                                     note_tags |-> cascade_tag(linked, swept)]]
                /\ last' = last
        /\ UNCHANGED <<folders, folders_seq, notes, notes_seq, notes_fts, now, disk>>

\* self.conn.commit() of set_note_tags
set_note_tags_commit ==
    /\ pc.at = "commit"
    /\ disk' = view
    /\ pc' = [pc EXCEPT !.at = "sweep"]
    /\ UNCHANGED <<tables, now, last>>

\* self.clean_unused_tags() of set_note_tags: the DELETE and its commit()
set_note_tags_sweep ==
    /\ pc.at = "sweep"
    /\ tags' = unused_swept(tags, note_tags)
    /\ note_tags' = cascade_tag(note_tags, tags')
    /\ disk' = [tags |-> tags', tags_seq |-> tags_seq, note_tags |-> note_tags']
    /\ pc' = Idle
    /\ last' = pc.call
    /\ UNCHANGED <<folders, folders_seq, notes, notes_seq, tags_seq, notes_fts, now>>

\* all_tags() called by another thread, on the connection the threads share
read_all_tags ==
    /\ last' = [Called("all_tags", NULL, <<>>, TRUE) EXCEPT !.ret = all_tags]
    /\ UNCHANGED <<tables, now>>
    /\ no_commit

\* SELECT count(*) FROM notes_fts: notes_fts is an external-content table
\* (content='notes'), so the rows counted are read from notes
count_notes_fts(ns, fts) == Cardinality(DOMAIN ns)

\* INSERT INTO notes_fts(notes_fts) VALUES('rebuild'): one entry for every row of notes
RECURSIVE rebuild(_, _)
rebuild(ns, ids) ==
    IF ids = {} THEN EmptyBag
    ELSE LET id == CHOOSE i \in ids : TRUE
         IN  rebuild(ns, ids \ {id}) (+) Entry(id, ns[id].title, ns[id].content)

\* the end of _init_schema: the rebuild when there are notes and the count is 0
reconciled(ns, fts) ==
    IF Cardinality(DOMAIN ns) > 0 /\ count_notes_fts(ns, fts) = 0
    THEN rebuild(ns, DOMAIN ns)
    ELSE fts

\* The index as a file restored from elsewhere may hold it, whatever notes holds: empty
\* (a backup of the primary data only), an entry missing, an entry with other content,
\* an entry for a note that is gone
restored_indexes ==
    LET whole == rebuild(notes, DOMAIN notes)
    IN  {EmptyBag}
        \cup {fts_delete(whole, n, notes[n].title, notes[n].content) : n \in DOMAIN notes}
        \cup {notes_au(whole, n, notes[n], [notes[n] EXCEPT !.content = <<"a", "b">>]) :
                n \in DOMAIN notes}
        \cup {fts_insert(whole, n, <<"b">>, <<>>) : n \in (1..notes_seq) \ DOMAIN notes}

\* the database file is replaced while the store is closed
restore ==
    /\ pc = Idle
    /\ \E fts \in restored_indexes : notes_fts' = fts
    /\ last' = Called("restore", NULL, <<>>, TRUE)
    /\ UNCHANGED <<folders, folders_seq, notes, notes_seq, tags, tags_seq, note_tags,
                   now, pc, disk>>

\* The process stops and Database(path) is constructed again on the file: what was
\* not committed is lost, a call in progress is gone, _init_schema runs
startup ==
    /\ tags' = disk.tags
    /\ tags_seq' = disk.tags_seq
    /\ note_tags' = disk.note_tags
    /\ notes_fts' = reconciled(notes, notes_fts)
    /\ pc' = Idle
    /\ last' = Called("Database", NULL, <<>>, TRUE)
    /\ UNCHANGED <<folders, folders_seq, notes, notes_seq, now, disk>>

----------------------------------------------------------------------------
(* Search: the text index query *)

Quote == "\""
NulChar == "NUL"            \* the character U+0000
Surrogate == "U+D800"       \* a lone surrogate: a str that has no UTF-8 encoding

Range(seq) == {seq[i] : i \in 1..Len(seq)}

\* query.replace('"', '""')
RECURSIVE escape_quotes(_)
escape_quotes(q) ==
    IF q = <<>> THEN <<>>
    ELSE (IF Head(q) = Quote THEN <<Quote, Quote>> ELSE <<Head(q)>>)
         \o escape_quotes(Tail(q))

\* f'"{clean_q}"' if " " in clean_q else f'"{clean_q}"*'
\* the query always quoted as a phrase: the '*' of the prefix form left out
fts_query_no_star(query) == <<Quote>> \o escape_quotes(query) \o <<Quote>>

fts_query(query) ==
    LET clean_q == escape_quotes(query)
    IN  IF " " \in Range(clean_q)
        THEN <<Quote>> \o clean_q \o <<Quote>>
        ELSE <<Quote>> \o clean_q \o <<Quote, "*">>

\* unicode61 tokenizer: a token is a maximal run of letters, case folded
IsTokenChar(c) == c \in {"a", "A", "b", "B"}

RECURSIVE tokenize(_, _)
tokenize(text, cur) ==
    IF text = <<>> THEN (IF cur = <<>> THEN <<>> ELSE <<cur>>)
    ELSE IF IsTokenChar(Head(text))
         THEN tokenize(Tail(text), Append(cur, LowerChar(Head(text))))
         ELSE (IF cur = <<>> THEN <<>> ELSE <<cur>>) \o tokenize(Tail(text), <<>>)

tokens(text) == tokenize(text, <<>>)

\* the body of an FTS5 string from position i: "" is a quote, " ends the string, and
\* the end of the input (SQLite reads the expression up to the first U+0000) before
\* the closing quote is the error "unterminated string"
RECURSIVE fts5_string(_, _, _)
fts5_string(s, i, body) ==
    IF i > Len(s) \/ s[i] = NulChar THEN [error |-> TRUE, body |-> body, next |-> i]
    ELSE IF s[i] # Quote THEN fts5_string(s, i + 1, Append(body, s[i]))
    ELSE IF i < Len(s) /\ s[i + 1] = Quote THEN fts5_string(s, i + 2, Append(body, Quote))
    ELSE [error |-> FALSE, body |-> body, next |-> i + 1]

\* notes_fts MATCH ?: the expression the code builds is one string, then * or nothing
fts5_parse(s) ==
    IF s = <<>> \/ s[1] # Quote THEN [error |-> TRUE, phrase |-> <<>>, prefix |-> FALSE]
    ELSE LET str == fts5_string(s, 2, <<>>)
             rest == IF str.next > Len(s) \/ s[str.next] = NulChar
                     THEN <<>> ELSE SubSeq(s, str.next, Len(s))
         IN  IF str.error \/ (rest # <<>> /\ rest # <<"*">>)
             THEN [error |-> TRUE, phrase |-> <<>>, prefix |-> FALSE]
             ELSE [error |-> FALSE, phrase |-> tokens(str.body), prefix |-> rest = <<"*">>]

IsPrefix(p, t) == Len(p) <= Len(t) /\ SubSeq(t, 1, Len(p)) = p

\* the phrase occurs in the column: its tokens in a row, the last one as a prefix when
\* the phrase is starred; a phrase without tokens matches nothing
phrase_in(column, phrase, prefix) ==
    LET toks == tokens(column)
        k == Len(phrase)
    IN  /\ k > 0
        /\ \E i \in 1..Len(toks) :
              /\ i + k - 1 <= Len(toks)
              /\ \A j \in 1..(k - 1) : toks[i + j - 1] = phrase[j]
              /\ IF prefix THEN IsPrefix(phrase[k], toks[i + k - 1])
                 ELSE toks[i + k - 1] = phrase[k]

\* SELECT rowid FROM notes_fts WHERE notes_fts MATCH ?
fts_match(fts, parsed) ==
    {e[1] : e \in {x \in BagToSet(fts) :
                     \/ phrase_in(x[2], parsed.phrase, parsed.prefix)
                     \/ phrase_in(x[3], parsed.phrase, parsed.prefix)}}

----------------------------------------------------------------------------
(* Search: the composed query *)

ResultLimit == 1000

\* SELECT nt.note_id FROM note_tags nt WHERE nt.tag_id IN (...) GROUP BY nt.note_id
\* HAVING COUNT(DISTINCT nt.tag_id) = len(tag_ids)
\* the subquery with OR in place of the count: a note linked to any of the tags
tag_subquery_any(tag_ids) ==
    {n \in {l[1] : l \in note_tags} : \E t \in Range(tag_ids) : <<n, t>> \in note_tags}

tag_subquery(tag_ids) ==
    {n \in {l[1] : l \in note_tags} :
        Cardinality({l[2] : l \in {k \in note_tags :
                                      k[1] = n /\ k[2] \in Range(tag_ids)}})
           = Len(tag_ids)}

\* if folder_id is not None: n.folder_id = ?
\* the folder clause added also for None: n.folder_id IS NULL
where_folder_is(n, folder_id) == notes[n].folder_id = folder_id

where_folder(n, folder_id) == folder_id = NULL \/ notes[n].folder_id = folder_id

\* if query: n.id IN (SELECT rowid FROM notes_fts WHERE notes_fts MATCH ?)
where_query(n, query) ==
    query = <<>> \/ n \in fts_match(notes_fts, fts5_parse(fts_query(query)))

\* if tag_ids: n.id IN (subq)
where_tags(n, tag_ids) == tag_ids = <<>> \/ n \in tag_subquery(tag_ids)

\* " AND ".join(where)
\* the WHERE clause joined with OR
where_any(n, folder_id, query, tag_ids) ==
    where_folder(n, folder_id) \/ where_query(n, query) \/ where_tags(n, tag_ids)

where_sql(n, folder_id, query, tag_ids) ==
    where_folder(n, folder_id) /\ where_query(n, query) /\ where_tags(n, tag_ids)

\* ORDER BY n.updated_at DESC: any order of ids that does not put an older note first
\* (SQL leaves the order of equal keys open)
\* ORDER BY n.updated_at without DESC: oldest first
order_by_asc(ids) ==
    {r \in [1..Cardinality(ids) -> ids] :
        /\ \A i, j \in DOMAIN r : r[i] = r[j] => i = j
        /\ \A i, j \in DOMAIN r : i < j => notes[r[i]].updated_at <= notes[r[j]].updated_at}

order_by(ids) ==
    {r \in [1..Cardinality(ids) -> ids] :
        /\ \A i, j \in DOMAIN r : i # j => r[i] # r[j]
        /\ \A i, j \in DOMAIN r : i < j => notes[r[i]].updated_at >= notes[r[j]].updated_at}

\* LIMIT 1000
limit(r) == IF Len(r) > ResultLimit THEN SubSeq(r, 1, ResultLimit) ELSE r

\* the dict built for a returned row, with the note's tags
result_row(id) ==
    [id |-> id, title |-> notes[id].title, content |-> notes[id].content,
     folder_id |-> notes[id].folder_id, updated_at |-> notes[id].updated_at,
     tags |-> list_note_tags(id)]

\* the enrichment loop: for each row, in order, the tag rows its SELECT returns
enrich(r) ==
    {tg \in [1..Len(r) -> UNION {list_note_tags_rows(n) : n \in Range(r)}] :
        \A i \in 1..Len(r) : tg[i] \in list_note_tags_rows(r[i])}

\* Database.search_notes: raised says an exception reaches the caller, results are the
\* lists (of note ids, each standing for its result_row) the call may return
search_notes(folder_id, query, tag_ids) ==
    IF query # <<>> /\ Surrogate \in Range(query)
    THEN \* cur.execute cannot encode the parameter: UnicodeEncodeError, not caught
         [raised |-> TRUE, results |-> {}]
    ELSE IF query # <<>> /\ fts5_parse(fts_query(query)).error
    THEN \* except sqlite3.OperationalError: return []
         [raised |-> FALSE, results |-> {<<>>}]
    ELSE [raised |-> FALSE,
          results |-> {limit(r) :
                         r \in order_by({n \in DOMAIN notes :
                                           where_sql(n, folder_id, query, tag_ids)})}]

\* a call of search_notes: the store is only read
search(folder_id, query, tag_ids) ==
    LET out == search_notes(folder_id, query, tag_ids)
        call == Called("search_notes", folder_id, <<query, tag_ids>>, ~out.raised)
    IN  /\ IF out.raised THEN last' = call
           ELSE \E r \in out.results : \E tg \in enrich(r) :
                   last' = [call EXCEPT !.ret = r, !.tags = tg]
        /\ UNCHANGED <<tables, now>>
        /\ no_commit

----------------------------------------------------------------------------
(* Search inputs *)

TagArgs == 1..MaxTags

\* tag_ids as the caller may pass them: any order, repeats included
TagIdLists == SeqsUpTo(TagArgs, MaxNames)

\* query strings: none, words, a phrase, and text outside the index's words
Queries ==
    {<<>>, <<"a">>, <<"A">>, <<"b">>, <<"a", " ", "b">>, <<" ">>, <<Quote>>, <<NulChar>>,
     <<Surrogate>>}

\* note contents of more than one word
Phrases == {<<"b">>, <<"a", " ", "b">>, <<"b", " ", "a">>, <<"a", "b">>}

----------------------------------------------------------------------------
(* Debouncer (utils/common.py) and the threading.Timer threads it starts *)

\* Debouncer(600, ...): the delay in milliseconds
Delay == 600

\* the times, in milliseconds, that pass between two events
Elapses == {300, 600}

\* the entries of trace of one kind: "call" (Debouncer.call), "fire" (a Timer found
\* its wait over and itself not cancelled), "fn" (the wrapped function was invoked)
events(kind) == {i \in DOMAIN trace : trace[i].ev = kind}

\* self._timer: the Timer of the latest call (the calls are numbered from 1), or None
timer_of_last_call == Cardinality(events("call"))

\* threading.Timer(self.delay, self.fn, args): a thread that waits, then runs fn;
\* frame holds the local state of fn while it runs
Timer(args) == [args |-> args, left |-> Delay, at |-> "wait", frame |-> <<>>]

\* Timer.cancel(): sets the finished event. A timer still waiting wakes up, finds the
\* event set and ends without running fn; one past that test is not affected
cancel(ts, t) ==
    IF t \in DOMAIN ts /\ ts[t].at = "wait" THEN Without(ts, t) ELSE ts

\* Debouncer.call that starts the new Timer without cancelling the one before
call_no_cancel(args) ==
    /\ timer_of_last_call < MaxCalls
    /\ LET t == timer_of_last_call + 1
       IN  /\ timers' = timers @@ (t :> Timer(args))
           /\ trace' = Append(trace, [ev |-> "call", timer |-> t, args |-> args])

\* Debouncer.call(*args)
call(args) ==
    /\ timer_of_last_call < MaxCalls
    /\ LET t == timer_of_last_call + 1
       IN  /\ timers' = cancel(timers, timer_of_last_call) @@ (t :> Timer(args))
           /\ trace' = Append(trace, [ev |-> "call", timer |-> t, args |-> args])

\* d milliseconds pass while a Timer waits: self.finished.wait(self.interval)
elapse(d) ==
    /\ \E t \in DOMAIN timers : timers[t].at = "wait" /\ timers[t].left > 0
    /\ timers' = [t \in DOMAIN timers |->
                    IF timers[t].at = "wait"
                    THEN [timers[t] EXCEPT !.left = IF @ > d THEN @ - d ELSE 0]
                    ELSE timers[t]]
    /\ UNCHANGED trace

\* Timer.run: the wait is over and finished is not set, fn will be called
timer_fire(t) ==
    /\ t \in DOMAIN timers
    /\ timers[t].at = "wait"
    /\ timers[t].left = 0
    /\ timers' = [timers EXCEPT ![t].at = "run"]
    /\ trace' = Append(trace, [ev |-> "fire", timer |-> t, args |-> timers[t].args])

\* Timer.run: self.function(*self.args), a function that returns at once; the thread
\* ends
timer_invoke(t) ==
    /\ t \in DOMAIN timers
    /\ timers[t].at = "run"
    /\ timers' = Without(timers, t)
    /\ trace' = Append(trace, [ev |-> "fn", timer |-> t, args |-> timers[t].args])

\* the Debouncer and its timers touch nothing else
rest_unchanged == UNCHANGED <<database, app, api, splitter>>

\* Debouncer.call with either of two arguments
calls == \E args \in {<<"a">>, <<"b">>} : call(args) /\ rest_unchanged

\* time passes for the waiting Timer
time_passes == \E d \in Elapses : elapse(d) /\ rest_unchanged

\* some Timer thread finds its wait over
timer_fires == \E t \in 1..MaxCalls : timer_fire(t) /\ rest_unchanged

\* some Timer thread calls the wrapped function
timer_runs == \E t \in 1..MaxCalls : timer_invoke(t) /\ rest_unchanged

----------------------------------------------------------------------------

(* SmartNotesApp (ui/app.py): folder and note selection, the editor fields and the
   autosave. The handlers run on the UI thread, one at a time; _save_current_note
   runs on the Timer thread the Debouncer started *)

\* _create_folder: confirm(name) of the dialog
app_create_folder(name) ==
    /\ app.at = "idle"
    /\ create_folder(name)
    /\ UNCHANGED gui

\* _select_folder(folder_id): a click on a folder of the list, or on "all notes" (None)
select_folder(folder_id) ==
    /\ app.at = "idle"
    /\ folder_id \in {NULL} \cup DOMAIN folders
    /\ folder_id # app.current_folder_id
    /\ app' = [app EXCEPT !.current_folder_id = folder_id]
    /\ UNCHANGED <<database, timers, trace, api, splitter>>

\* _create_note: db.create_note(self.current_folder_id), then _select_note(nid) up to
\* its first statement
app_create_note ==
    /\ app.at = "idle"
    /\ create_note(app.current_folder_id, <<>>)
    /\ app' = IF last'.ok
              THEN [app EXCEPT !.selected_note_id = last'.id, !.at = "select"]
              ELSE app
    /\ UNCHANGED <<timers, trace, api, splitter>>

\* _select_note(note_id), first statement: self.selected_note_id = note_id
select_note(note_id) ==
    /\ app.at = "idle"
    /\ note_id \in DOMAIN notes
    /\ note_id # app.selected_note_id
    /\ app' = [app EXCEPT !.selected_note_id = note_id, !.at = "select"]
    /\ UNCHANGED <<database, timers, trace, api, splitter>>

\* _select_note, the rest: n = self.db.get_note(note_id) and, if it is there, its
\* title and content are put into the editor fields
select_note_load ==
    /\ app.at = "select"
    /\ LET note_id == app.selected_note_id
       IN  app' = IF note_id \in DOMAIN notes
                  THEN [app EXCEPT !.title_field = notes[note_id].title,
                                   !.content_field = notes[note_id].content,
                                   !.shown = note_id, !.at = "idle"]
                  ELSE [app EXCEPT !.at = "idle"]
    /\ UNCHANGED <<database, timers, trace, api, splitter>>

\* the text after a change of the editor fields, filed under the selected note
typed_into(title, content) ==
    IF app.selected_note_id = NULL THEN app.typed
    ELSE (app.selected_note_id :> <<title, content>>) @@ app.typed

\* the user changes the title field: on_change, _on_editor_change, autosave.call()
type_title(title) ==
    /\ app.at = "idle"
    /\ title # app.title_field
    /\ app' = [app EXCEPT !.title_field = title,
                          !.typed = typed_into(title, app.content_field)]
    /\ call(<<>>)
    /\ UNCHANGED <<database, api, splitter>>

\* the user changes the content field: on_change, _on_editor_change, autosave.call()
type_content(content) ==
    /\ app.at = "idle"
    /\ content # app.content_field
    /\ app' = [app EXCEPT !.content_field = content,
                          !.typed = typed_into(app.title_field, content)]
    /\ call(<<>>)
    /\ UNCHANGED <<database, api, splitter>>

\* _save_current_note on Timer thread t, invoked: if not self.selected_note_id: return
save_current_note_test(t) ==
    /\ t \in DOMAIN timers
    /\ timers[t].at = "run"
    /\ timers' = IF app.selected_note_id = NULL THEN Without(timers, t)
                 ELSE [timers EXCEPT ![t].at = "id"]
    /\ trace' = Append(trace, [ev |-> "fn", timer |-> t, args |-> timers[t].args])
    /\ UNCHANGED <<database, app, api, splitter>>

\* _save_current_note: the first argument of update_note is read, self.selected_note_id
save_current_note_id(t) ==
    /\ t \in DOMAIN timers
    /\ timers[t].at = "id"
    /\ timers' = [timers EXCEPT ![t].at = "fields",
                                ![t].frame = [note_id |-> app.selected_note_id]]
    /\ UNCHANGED <<database, app, trace, api, splitter>>

\* _save_current_note: the other arguments are read, the values of the two editor
\* fields and self.current_folder_id (of is the note the fields were loaded for)
save_current_note_fields(t) ==
    /\ t \in DOMAIN timers
    /\ timers[t].at = "fields"
    /\ timers' = [timers EXCEPT ![t].at = "update",
                                ![t].frame = [note_id |-> @.note_id,
                                              title |-> app.title_field,
                                              content |-> app.content_field,
                                              folder_id |-> app.current_folder_id,
                                              of |-> app.shown]]
    /\ UNCHANGED <<database, app, trace, api, splitter>>

\* _save_current_note: self.db.update_note(...) with the arguments read; the thread ends
save_current_note_update(t) ==
    /\ t \in DOMAIN timers
    /\ timers[t].at = "update"
    /\ LET f == timers[t].frame
       IN  update_note(f.note_id, f.title, f.content, f.folder_id)
    /\ timers' = Without(timers, t)
    /\ UNCHANGED <<app, trace, api, splitter>>

\* some Timer thread takes its next step in _save_current_note
save_runs ==
    \E t \in 1..MaxCalls :
       \/ save_current_note_test(t)
       \/ save_current_note_id(t)
       \/ save_current_note_fields(t)
       \/ save_current_note_update(t)

----------------------------------------------------------------------------

(* OpenRouterClient (services/ai_client.py) *)

\* delays = [0.0, 1.0, 2.5, 5.0]: one round per delay
Rounds == 4

\* what one chat.completions.create call can do: answer with text, answer with an
\* empty or missing content, or raise (an APIError, rate-limited or refused by the
\* data policy, or another exception)
Outcomes ==
    {"text", "", "API Error: 429", "API Error: No endpoints found", "TimeoutError: "}

\* "No endpoints found" in last_err
no_endpoints(err) == err = "API Error: No endpoints found"

\* set_key(key)
set_key(key) ==
    /\ api' = [api EXCEPT !.api_key = strip(key), !.last_error = None,
                          !.client = (strip(key) # <<>>)]
    /\ UNCHANGED <<database, app, timers, trace, splitter>>

\* [self.model] + [m for m in FALLBACK_MODELS if m != self.model]
models_from(model) ==
    <<model>> \o SelectSeq(FALLBACK_MODELS, LAMBDA m : m # model)

\* _chat up to its loop: without a key it returns None at once
chat_begin ==
    /\ api.chat = NoChat
    /\ api' = IF api.api_key = <<>>
              THEN [api EXCEPT !.last_error = "API key is not set",
                               !.returned = "None", !.tried = <<>>]
              ELSE [api EXCEPT !.returned = "-", !.tried = <<>>,
                               !.chat = [at |-> "attempt", models |-> models_from(api.model),
                                         round |-> 1, m |-> 1, last_err |-> None]]
    /\ UNCHANGED <<database, app, timers, trace, splitter>>

\* the end of _chat after its last round
chat_gives_up(last_err) ==
    IF last_err # None /\ no_endpoints(last_err)
    THEN "Privacy filter blocks free models; enable prompt logging/training in account"
    ELSE IF last_err # None /\ last_err # "" THEN last_err ELSE "Unknown error"

\* one pass of the inner loop of _chat: _chat_once(m, ...) with the given outcome,
\* then the return, the next model, the next round or the end of the loop
chat_once(outcome) ==
    /\ api.chat # NoChat
    /\ LET c == api.chat
           model == c.models[c.m]
           tried == Append(api.tried, <<c.round, model>>)
           error == IF outcome \in {"text", ""} THEN api.last_error ELSE outcome
       IN  api' =
             IF ~api.client
             THEN \* assert self.client is not None
                  [api EXCEPT !.returned = "AssertionError", !.chat = NoChat]
             ELSE IF outcome = "text"
             THEN [api EXCEPT !.model = model, !.last_error = None, !.tried = tried,
                              !.returned = "text", !.chat = NoChat]
             ELSE IF c.m < Len(c.models)
             THEN [api EXCEPT !.last_error = error, !.tried = tried,
                              !.chat = [c EXCEPT !.m = c.m + 1, !.last_err = error]]
             ELSE IF c.round < Rounds
             THEN [api EXCEPT !.last_error = error, !.tried = tried,
                              !.chat = [c EXCEPT !.round = c.round + 1, !.m = 1,
                                                 !.last_err = error]]
             ELSE [api EXCEPT !.last_error = chat_gives_up(error), !.tried = tried,
                              !.returned = "None", !.chat = NoChat]
    /\ UNCHANGED <<database, app, timers, trace, splitter>>

----------------------------------------------------------------------------

(* SplitterManager (ui/layout.py) *)

MIN_LEFT == 60
MIN_MID == 100
MIN_RIGHT == 60
TOTAL_FLEX == 300

\* panel values as a caller may pass them: below, at and above the minimums, up to
\* the whole width and beyond
PanelValues == {0, 30, 60, 100, 150, 240, 300, 1000}

max(a, b) == IF a >= b THEN a ELSE b

\* int(round(x * k)) with k = TOTAL_FLEX / s, for x >= 0 and s > 0: the integer
\* nearest to x * TOTAL_FLEX / s. On an exact half the float product may fall on
\* either side of it, so that both neighbours are possible results
scaled(x, s) ==
    LET q == (x * TOTAL_FLEX) \div s
        r == (x * TOTAL_FLEX) % s
    IN  IF 2 * r < s THEN {q} ELSE IF 2 * r > s THEN {q + 1} ELSE {q, q + 1}

\* the body normalize and apply_absolute share: the values raised to their minimums
\* and, if their sum s is not TOTAL_FLEX, scaled by TOTAL_FLEX / s and raised again
fitted(l, m, r) ==
    LET L0 == max(MIN_LEFT, l)
        M0 == max(MIN_MID, m)
        R0 == max(MIN_RIGHT, r)
        s == max(1, L0 + M0 + R0)
    IN  IF s = TOTAL_FLEX
        THEN {[left |-> L0, mid |-> M0, right |-> R0]}
        ELSE {[left |-> max(MIN_LEFT, L), mid |-> max(MIN_MID, M),
               right |-> max(MIN_RIGHT,
                             TOTAL_FLEX - max(MIN_LEFT, L) - max(MIN_MID, M))] :
                 L \in scaled(L0, s), M \in scaled(M0, s)}

\* set_values(l, m, r)
set_values(l, m, r) ==
    /\ splitter' = [left |-> l, mid |-> m, right |-> r]
    /\ UNCHANGED <<database, app, timers, trace, api>>

\* normalize()
normalize ==
    /\ splitter' \in fitted(splitter.left, splitter.mid, splitter.right)
    /\ UNCHANGED <<database, app, timers, trace, api>>

\* apply_absolute(L, M, R)
apply_absolute(L, M, R) ==
    /\ splitter' \in fitted(L, M, R)
    /\ UNCHANGED <<database, app, timers, trace, api>>

----------------------------------------------------------------------------

(* The clock and the specification *)

Tick ==
    /\ now < MaxTime
    /\ now' = now + 1
    /\ UNCHANGED <<tables, last>>
    /\ no_commit

FolderRefs == {NULL} \cup FolderArgs

Next ==
    \/ \E name \in FolderNames : create_folder(name) /\ UNCHANGED gui
    \/ \E f \in FolderArgs, name \in FolderNames : rename_folder(f, name)
          /\ UNCHANGED gui
    \/ \E f \in FolderArgs : delete_folder(f) /\ UNCHANGED gui
    \/ \E f \in FolderRefs, title \in Titles : create_note(f, title) /\ UNCHANGED gui
    \/ \E n \in NoteArgs, title \in Titles, content \in Contents, f \in FolderRefs :
          update_note(n, title, content, f) /\ UNCHANGED gui
    \/ \E n \in NoteArgs : delete_note(n) /\ UNCHANGED gui
    \/ \E n \in NoteArgs, f \in FolderRefs : move_note(n, f) /\ UNCHANGED gui
    \/ \E n \in NoteArgs, names \in TagNameLists : set_note_tags(n, names)
          /\ UNCHANGED gui
    \/ clean_unused_tags /\ UNCHANGED gui
    \/ \E f \in FolderRefs, query \in Queries, tag_ids \in TagIdLists :
          search(f, query, tag_ids) /\ UNCHANGED gui
    \/ Tick /\ UNCHANGED gui
    \/ \E name \in FolderNames : app_create_folder(name)
    \/ \E f \in FolderRefs : select_folder(f)
    \/ app_create_note
    \/ \E n \in NoteArgs : select_note(n)
    \/ select_note_load
    \/ \E title \in Titles : type_title(title)
    \/ \E content \in Contents : type_content(content)
    \/ time_passes
    \/ timer_fires
    \/ save_runs
    \/ \E key \in {<<>>, <<"a">>, <<" ">>} : set_key(key)
    \/ chat_begin
    \/ \E outcome \in Outcomes : chat_once(outcome)
    \/ \E l, m, r \in PanelValues : set_values(l, m, r)
    \/ normalize
    \/ \E L, M, R \in PanelValues : apply_absolute(L, M, R)

Spec == Init /\ [][Next]_vars

\* The tag lifecycle alone: notes without text or folder, the clock stopped
NextTags ==
    \/ create_note(NULL, <<>>) /\ UNCHANGED gui
    \/ \E n \in NoteArgs : delete_note(n) /\ UNCHANGED gui
    \/ \E n \in NoteArgs, names \in TagNameLists : set_note_tags(n, names)
          /\ UNCHANGED gui
    \/ clean_unused_tags /\ UNCHANGED gui

SpecTags == Init /\ [][NextTags]_vars

\* The text index under every operation that writes notes, the clock stopped
NextIndex ==
    \/ create_folder(<<"a">>) /\ UNCHANGED gui
    \/ \E f \in FolderArgs : delete_folder(f) /\ UNCHANGED gui
    \/ \E f \in FolderRefs, title \in Titles : create_note(f, title) /\ UNCHANGED gui
    \/ \E n \in NoteArgs, title \in Titles, content \in Contents, f \in FolderRefs :
          update_note(n, title, content, f) /\ UNCHANGED gui
    \/ \E n \in NoteArgs : delete_note(n) /\ UNCHANGED gui
    \/ \E n \in NoteArgs, f \in FolderRefs : move_note(n, f) /\ UNCHANGED gui
    \/ \E n \in NoteArgs, names \in SeqsUpTo({<<"a">>}, 1) : set_note_tags(n, names)
          /\ UNCHANGED gui

SpecIndex == Init /\ [][NextIndex]_vars

\* Folders and the notes filed in them: notes without text or tags, the clock stopped
NextFolders ==
    \/ \E name \in FolderNames : create_folder(name) /\ UNCHANGED gui
    \/ \E f \in FolderArgs, name \in FolderNames : rename_folder(f, name)
          /\ UNCHANGED gui
    \/ \E f \in FolderArgs : delete_folder(f) /\ UNCHANGED gui
    \/ \E f \in FolderRefs : create_note(f, <<>>) /\ UNCHANGED gui
    \/ \E n \in NoteArgs, f \in FolderRefs : update_note(n, <<>>, <<>>, f)
          /\ UNCHANGED gui
    \/ \E n \in NoteArgs : delete_note(n) /\ UNCHANGED gui
    \/ \E n \in NoteArgs, f \in FolderRefs : move_note(n, f) /\ UNCHANGED gui

SpecFolders == Init /\ [][NextFolders]_vars

\* Deleting folders under notes that carry text and tags; every note is created in a
\* folder, so a note without a folder has lost it to delete_folder
NextFiled ==
    \/ \E name \in {<<"a">>, <<"b">>} : create_folder(name) /\ UNCHANGED gui
    \/ \E f \in FolderArgs : delete_folder(f) /\ UNCHANGED gui
    \/ \E f \in FolderArgs : create_note(f, <<"a">>) /\ UNCHANGED gui
    \/ \E n \in NoteArgs, f \in FolderArgs : update_note(n, <<"a">>, <<"b">>, f)
          /\ UNCHANGED gui
    \/ \E n \in NoteArgs, names \in SeqsUpTo({<<"a">>}, 1) : set_note_tags(n, names)
          /\ UNCHANGED gui

SpecFiled == Init /\ [][NextFiled]_vars

\* Search by tags: notes without text or folder, tagged from two names
NextSearchTags ==
    \/ create_note(NULL, <<>>) /\ UNCHANGED gui
    \/ \E n \in NoteArgs, names \in SeqsUpTo({<<"a">>, <<"b">>}, MaxNames) :
          set_note_tags(n, names) /\ UNCHANGED gui
    \/ \E tag_ids \in TagIdLists : search(NULL, <<>>, tag_ids) /\ UNCHANGED gui

SpecSearchTags == Init /\ [][NextSearchTags]_vars

\* Search by folder, text and tag together: one folder, one word, one tag
NextSearchAll ==
    \/ create_folder(<<"a">>) /\ UNCHANGED gui
    \/ \E f \in {NULL, 1}, title \in Titles : create_note(f, title) /\ UNCHANGED gui
    \/ \E n \in NoteArgs, names \in SeqsUpTo({<<"a">>}, 1) : set_note_tags(n, names)
          /\ UNCHANGED gui
    \/ \E f \in {NULL, 1}, query \in {<<>>, <<"a">>, <<"b">>},
          tag_ids \in SeqsUpTo({1}, 1) :
          search(f, query, tag_ids) /\ UNCHANGED gui

SpecSearchAll == Init /\ [][NextSearchAll]_vars

\* Search by text: notes without folder or tags, titles of one word, contents of
\* several, every kind of query string
NextSearchText ==
    \/ \E title \in Titles : create_note(NULL, title) /\ UNCHANGED gui
    \/ \E n \in NoteArgs, title \in Titles, content \in Phrases :
          update_note(n, title, content, NULL) /\ UNCHANGED gui
    \/ \E query \in Queries : search(NULL, query, <<>>) /\ UNCHANGED gui

SpecSearchText == Init /\ [][NextSearchText]_vars

\* Search by folder: notes without text or tags, in and out of two folders
NextSearchFolders ==
    \/ \E name \in {<<"a">>, <<"b">>} : create_folder(name) /\ UNCHANGED gui
    \/ \E f \in FolderArgs : delete_folder(f) /\ UNCHANGED gui
    \/ \E f \in FolderRefs : create_note(f, <<>>) /\ UNCHANGED gui
    \/ \E n \in NoteArgs, f \in FolderRefs : move_note(n, f) /\ UNCHANGED gui
    \/ \E n \in NoteArgs : delete_note(n) /\ UNCHANGED gui
    \/ \E f \in FolderRefs : search(f, <<>>, <<>>) /\ UNCHANGED gui

SpecSearchFolders == Init /\ [][NextSearchFolders]_vars

\* Search order: notes without text, folder or tags, written while the clock runs
NextSearchOrder ==
    \/ create_note(NULL, <<>>) /\ UNCHANGED gui
    \/ \E n \in NoteArgs : update_note(n, <<>>, <<>>, NULL) /\ UNCHANGED gui
    \/ \E n \in NoteArgs : delete_note(n) /\ UNCHANGED gui
    \/ search(NULL, <<>>, <<>>) /\ UNCHANGED gui
    \/ Tick /\ UNCHANGED gui

SpecSearchOrder == Init /\ [][NextSearchOrder]_vars

\* Search results and their tag lists: tag names that differ in case and in letter
NextSearchRows ==
    \/ create_note(NULL, <<>>) /\ UNCHANGED gui
    \/ \E n \in NoteArgs, names \in SeqsUpTo({<<"a">>, <<"A">>, <<"B">>}, MaxNames) :
          set_note_tags(n, names) /\ UNCHANGED gui
    \/ \E tag_ids \in SeqsUpTo({1, 2}, 1) : search(NULL, <<>>, tag_ids) /\ UNCHANGED gui

SpecSearchRows == Init /\ [][NextSearchRows]_vars

\* Creating notes while the clock runs, among notes that are tagged and deleted
NextCreate ==
    \/ create_folder(<<"a">>) /\ UNCHANGED gui
    \/ \E f \in {NULL, 1}, title \in Titles : create_note(f, title) /\ UNCHANGED gui
    \/ \E n \in NoteArgs, names \in SeqsUpTo({<<"a">>}, 1) : set_note_tags(n, names)
          /\ UNCHANGED gui
    \/ \E n \in NoteArgs : delete_note(n) /\ UNCHANGED gui
    \/ Tick /\ UNCHANGED gui

SpecCreate == Init /\ [][NextCreate]_vars

\* Every write to a note while the clock runs: titled notes edited, moved, tagged and
\* deleted, in and out of a folder
NextStamps ==
    \/ create_folder(<<"a">>) /\ UNCHANGED gui
    \/ \E f \in FolderArgs : delete_folder(f) /\ UNCHANGED gui
    \/ \E f \in {NULL, 1} : create_note(f, <<"a">>) /\ UNCHANGED gui
    \/ \E n \in NoteArgs, content \in Contents, f \in {NULL, 1} :
          update_note(n, <<"a">>, content, f) /\ UNCHANGED gui
    \/ \E n \in NoteArgs, f \in {NULL, 1} : move_note(n, f) /\ UNCHANGED gui
    \/ \E n \in NoteArgs, names \in SeqsUpTo({<<"a">>}, 1) : set_note_tags(n, names)
          /\ UNCHANGED gui
    \/ \E n \in NoteArgs : delete_note(n) /\ UNCHANGED gui
    \/ Tick /\ UNCHANGED gui

SpecStamps == Init /\ [][NextStamps]_vars

\* Repeated saves of notes: every title, content and folder, on present and deleted
\* notes, while the clock runs
NextUpdates ==
    \/ create_folder(<<"a">>) /\ UNCHANGED gui
    \/ create_note(NULL, <<>>) /\ UNCHANGED gui
    \/ \E n \in NoteArgs, title \in Titles, content \in Contents, f \in FolderRefs :
          update_note(n, title, content, f) /\ UNCHANGED gui
    \/ \E n \in NoteArgs : delete_note(n) /\ UNCHANGED gui
    \/ Tick /\ UNCHANGED gui

SpecUpdates == Init /\ [][NextUpdates]_vars


\* set_note_tags on existing notes in its steps, with reads in between and restarts;
\* notes are created between the calls
NextThreads ==
    \/ pc = Idle /\ create_note(NULL, <<>>) /\ UNCHANGED gui
    \/ \E n \in DOMAIN notes, names \in SeqsUpTo({<<"a">>, <<"b">>}, 1) :
          set_note_tags_write(n, names) /\ UNCHANGED gui
    \/ set_note_tags_commit /\ UNCHANGED gui
    \/ set_note_tags_sweep /\ UNCHANGED gui
    \/ read_all_tags /\ UNCHANGED gui
    \/ startup /\ UNCHANGED gui

SpecThreads == Init /\ [][NextThreads]_vars

\* the index holds what a rebuild from notes would give
in_sync == notes_fts = rebuild(notes, DOMAIN notes)

\* Restarts of the store on a file whose index was restored apart from its notes;
\* notes are written while the index is whole
NextStartup ==
    \/ in_sync /\ \E title \in Titles : create_note(NULL, title) /\ UNCHANGED gui
    \/ in_sync /\ \E n \in NoteArgs, content \in Contents :
                     update_note(n, <<"a">>, content, NULL) /\ UNCHANGED gui
    \/ in_sync /\ \E n \in NoteArgs : delete_note(n) /\ UNCHANGED gui
    \/ restore /\ UNCHANGED gui
    \/ startup /\ UNCHANGED gui
    \/ \E query \in {<<"a">>, <<"b">>} : search(NULL, query, <<>>) /\ UNCHANGED gui

SpecStartup == Init /\ [][NextStartup]_vars

\* A Debouncer alone: calls with either of two arguments, time passing, and its
\* Timer threads running
NextDebouncer == calls \/ time_passes \/ timer_fires \/ timer_runs

\* Time passes and every Timer thread gets to run
SpecDebouncer ==
    /\ Init /\ [][NextDebouncer]_vars
    /\ WF_vars(time_passes) /\ WF_vars(timer_fires) /\ WF_vars(timer_runs)

\* The window in use: notes created and selected, the editor fields changed, while
\* time passes and the autosave timers run
NextAutosave ==
    \/ app_create_note
    \/ \E n \in NoteArgs : select_note(n)
    \/ select_note_load
    \/ timer_of_last_call < MaxEdits /\ \E title \in Titles : type_title(title)
    \/ time_passes
    \/ timer_fires
    \/ save_runs

\* The UI thread finishes the handler it is in, time passes, and every Timer thread
\* gets to run
SpecAutosave ==
    /\ Init /\ [][NextAutosave]_vars
    /\ WF_vars(select_note_load) /\ WF_vars(time_passes) /\ WF_vars(timer_fires)
    /\ WF_vars(save_runs)

\* Notes in and out of a folder, edited while a folder or "all notes" is selected in
\* the folder list, and saved by the autosave
NextSaveFolder ==
    \/ app_create_folder(<<"a">>)
    \/ \E f \in FolderRefs : select_folder(f)
    \/ app_create_note
    \/ select_note_load
    \/ timer_of_last_call < MaxEdits /\ \E content \in Contents : type_content(content)
    \/ time_passes
    \/ timer_fires
    \/ save_runs

SpecSaveFolder == Init /\ [][NextSaveFolder]_vars

\* The AI client: the key set and cleared from the settings dialog while _chat calls
\* run on their worker thread
NextChat ==
    \/ \E key \in {<<>>, <<"a">>, <<" ">>} : set_key(key)
    \/ chat_begin
    \/ \E outcome \in Outcomes : chat_once(outcome)

SpecChat == Init /\ [][NextChat]_vars

\* The panel splitter given any values, normalised, and given absolute values
NextSplitter ==
    \/ \E l, m, r \in PanelValues : set_values(l, m, r)
    \/ normalize
    \/ \E L, M, R \in PanelValues : apply_absolute(L, M, R)

SpecSplitter == Init /\ [][NextSplitter]_vars

















----------------------------------------------------------------------------
(* Text index *)

IndexRows == BagToSet(notes_fts)

\* C1: for every live note there is exactly one index entry and it holds the note's
\* current (title, content); no index entry remains for a note that is not live.
C1_IndexInSync ==
    /\ \A n \in DOMAIN notes :
          /\ CopiesIn(<<n, notes[n].title, notes[n].content>>, notes_fts) = 1
          /\ \A e \in IndexRows :
                e[1] = n => e = <<n, notes[n].title, notes[n].content>>
    /\ \A e \in IndexRows : e[1] \in DOMAIN notes

\* a note was deleted, and a live note has been given a title and a content
C1_Witness ==
    /\ last.op = "delete_note"
    /\ last.id <= notes_seq
    /\ last.id \notin DOMAIN notes
    /\ \E n \in DOMAIN notes : notes[n].title # <<>> /\ notes[n].content # <<>>

----------------------------------------------------------------------------
(* Links and tags *)

\* C2: every note-tag link refers to an existing note and an existing tag.
C2_LinksReferToRows ==
    \A l \in note_tags : l[1] \in DOMAIN notes /\ l[2] \in DOMAIN tags

\* delete_note has just removed a note that carried tags, while another note has some
C2_Witness ==
    /\ last.op = "delete_note"
    /\ last.had # {}
    /\ last.id \notin DOMAIN notes
    /\ note_tags # {}

\* C3: when a set_note_tags call has returned, all_tags() holds no entry with
\* usage_count 0, whichever operation orphaned the tag.
C3_NoOrphanAfterSetTags ==
    (last.op = "set_note_tags" /\ last.ok) => \A t \in all_tags : t.usage_count # 0

\* set_note_tags returned on a store that held an unlinked tag when it was called
C3_Witness ==
    /\ last.op = "set_note_tags"
    /\ last.ok
    /\ last.orphans > 0
    /\ last.id \in DOMAIN notes
    /\ tags # <<>>

\* C4: after every completed operation every tag of all_tags(), and every tag counted
\* by counts()["tags"], has at least one link.
C4_NoUnlinkedTagVisible ==
    last.ok =>
        /\ \A t \in all_tags : t.usage_count >= 1
        /\ counts.tags = Cardinality({l[2] : l \in note_tags})

\* C5: the usage_count all_tags() reports for a tag is the number of distinct live
\* notes linked to it.
C5_UsageCountIsLiveLinks ==
    \A t \in all_tags :
        t.usage_count = Cardinality({n \in DOMAIN notes : <<n, t.id>> \in note_tags})

\* one tag is used by two notes, another by one
C5_Witness ==
    \E t, u \in all_tags : t.usage_count = 2 /\ u.usage_count = 1

\* the trimmed, non-empty names of a tag_names argument
TrimmedNames(tag_names) ==
    {strip(tag_names[i]) : i \in 1..Len(tag_names)} \ {<<>>}

\* C6: after set_note_tags(n, names) on an existing note n, the tag names linked to n
\* are exactly the trimmed, non-empty names of the input.
C6_SetReplacement ==
    (last.op = "set_note_tags" /\ last.id \in DOMAIN notes) =>
        /\ last.ok
        /\ names_of(last.id) = TrimmedNames(last.arg)

\* a tag the note had is gone, and the input held a padded and a blank name
C6_Witness ==
    /\ last.op = "set_note_tags"
    /\ last.id \in DOMAIN notes
    /\ last.had \ names_of(last.id) # {}
    /\ names_of(last.id) # {}
    /\ \E i, j \in 1..Len(last.arg) :
          /\ strip(last.arg[i]) = <<>>
          /\ strip(last.arg[j]) \notin {<<>>, last.arg[j]}

\* C7: set_note_tags(n, names) called again with the same arguments leaves the tags
\* (identifiers and names) and the links as the first call left them.
C7_Idempotent ==
    [][(last'.op = "set_note_tags" /\ last'.again) =>
          (tags' = tags /\ note_tags' = note_tags)]_vars

\* the repeated call returned, and its input names the same tag twice
C7_Witness ==
    /\ last.op = "set_note_tags"
    /\ last.again
    /\ last.ok
    /\ Len(last.arg) = 2
    /\ strip(last.arg[1]) = strip(last.arg[2])
    /\ names_of(last.id) = {strip(last.arg[1])}

\* C8: set_note_tags links the note to the existing tag of a name when there is one,
\* creating no second tag of that name, and creates a tag only for a name without one.
C8_ReuseByName ==
    [][(last'.op = "set_note_tags" /\ last'.ok /\ last'.id \in DOMAIN notes) =>
          \A name \in TrimmedNames(last'.arg) :
             IF \E t \in DOMAIN tags : tags[t] = name
             THEN \A t \in DOMAIN tags :
                     tags[t] = name =>
                        /\ t \in DOMAIN tags'
                        /\ <<last'.id, t>> \in note_tags'
                        /\ \A u \in DOMAIN tags' : tags'[u] = name <=> u = t
             ELSE \E u \in DOMAIN tags' :
                     /\ u > tags_seq
                     /\ tags'[u] = name
                     /\ <<last'.id, u>> \in note_tags'
                     /\ \A v \in DOMAIN tags' : tags'[v] = name => v = u]_vars

\* the note of the call shares a tag with another note, and got a new tag besides
C8_Witness ==
    /\ last.op = "set_note_tags"
    /\ last.ok
    /\ \E m \in DOMAIN notes, t \in DOMAIN tags :
          /\ m # last.id
          /\ <<m, t>> \in note_tags
          /\ <<last.id, t>> \in note_tags
    /\ <<last.id, tags_seq>> \in note_tags
    /\ tags[tags_seq] \notin last.had

\* C9: no two distinct tags have names that are equal ignoring case (stated of the
\* states a returned call leaves).
C9_TagNamesUniqueNoCase ==
    last.ok => \A t, u \in DOMAIN tags : t # u => ~EqNoCase(tags[t], tags[u])

\* C10: no two distinct folders have names that are equal ignoring case.
C10_FolderNamesUniqueNoCase ==
    \A f, g \in DOMAIN folders : f # g => ~EqNoCase(folders[f], folders[g])

----------------------------------------------------------------------------
(* Folders *)

\* C11: when create_folder or rename_folder raises the duplicate-name error, the
\* folders (ids and names) and all notes are as before the call; no folder is created.
C11_RejectedFolderCallChangesNothing ==
    [][(last'.op \in {"create_folder", "rename_folder"} /\ ~last'.ok) =>
          (folders' = folders /\ folders_seq' = folders_seq /\ notes' = notes)]_vars

\* rename_folder was rejected on a store with two folders and a note
C11_Witness ==
    /\ last.op = "rename_folder"
    /\ ~last.ok
    /\ Cardinality(DOMAIN folders) = 2
    /\ DOMAIN notes # {}

\* C12: delete_folder(F) deletes no note: every note that was in F is still there with
\* folder reference null and the title, content and tags it had; F is absent from
\* list_folders; every other note keeps its folder.
C12_DeleteFolderKeepsNotes ==
    [][last'.op = "delete_folder" =>
          /\ DOMAIN notes' = DOMAIN notes
          /\ \A n \in DOMAIN notes :
                /\ notes'[n].title = notes[n].title
                /\ notes'[n].content = notes[n].content
                /\ list_note_tags(n)' = list_note_tags(n)
                /\ notes'[n].folder_id =
                      IF notes[n].folder_id = last'.id THEN NULL ELSE notes[n].folder_id
          /\ \A f \in list_folders' : f.id # last'.id]_vars

\* a folder was deleted: its note, with text and a tag, has no folder now, and the
\* other note is still in the other folder
C12_Witness ==
    /\ last.op = "delete_folder"
    /\ last.id \notin DOMAIN folders
    /\ last.id <= folders_seq
    /\ \E n, m \in DOMAIN notes :
          /\ notes[n].folder_id = NULL
          /\ notes[n].content = <<"b">>
          /\ list_note_tags(n) # {}
          /\ notes[m].folder_id \in DOMAIN folders

\* C13: in every reachable state every note's folder_id is null or the id of an
\* existing folder; create_note, update_note and move_note given the id of no folder
\* are rejected (for a note that exists) and leave the notes as they were.
C13_FolderRefsValid ==
    /\ [](\A n \in DOMAIN notes : notes[n].folder_id \in {NULL} \cup DOMAIN folders)
    /\ [][\A f \in FolderArgs \ DOMAIN folders :
             /\ \A title \in Titles : create_note(f, title) => ~last'.ok
             /\ \A n \in DOMAIN notes :
                   /\ move_note(n, f) => ~last'.ok
                   /\ \A title \in Titles, content \in Contents :
                         update_note(n, title, content, f) => ~last'.ok]_vars
    /\ [][(last'.op \in {"create_note", "update_note", "move_note"} /\ ~last'.ok) =>
             (notes' = notes /\ notes_seq' = notes_seq /\ notes_fts' = notes_fts)]_vars

\* move_note of a note in a folder to the id of a deleted folder was rejected
C13_Witness ==
    /\ last.op = "move_note"
    /\ ~last.ok
    /\ last.id \in DOMAIN notes
    /\ notes[last.id].folder_id \in DOMAIN folders
    /\ folders_seq > Cardinality(DOMAIN folders)

----------------------------------------------------------------------------
(* Search *)

\* the call the record is of was search_notes(folder_id, query, tag_ids) and returned
Searched == last.op = "search_notes" /\ last.ok

\* the ids of the tags linked to a note
tags_on(n) == {l[2] : l \in {k \in note_tags : k[1] = n}}

IsSet(list) == \A i, j \in 1..Len(list) : list[i] = list[j] => i = j

\* C14: with tag_ids a non-empty set T, every note search_notes returns is linked to
\* every tag of T, and with no other filter a note is returned if and only if it is
\* linked to every tag of T.
C14_TagFilterIntersects ==
    (Searched /\ last.arg[2] # <<>> /\ IsSet(last.arg[2])) =>
        LET T == Range(last.arg[2])
        IN  /\ \A n \in Range(last.ret) : T \subseteq tags_on(n)
            /\ (last.id = NULL /\ last.arg[1] = <<>>) =>
                   Range(last.ret) = {n \in DOMAIN notes : T \subseteq tags_on(n)}

\* a search by two tags returned the one note that has both and not the note that
\* has one of them
C14_Witness ==
    /\ Searched
    /\ IsSet(last.arg[2])
    /\ Len(last.arg[2]) = 2
    /\ Len(last.ret) = 1
    /\ \E m \in DOMAIN notes :
          Cardinality(tags_on(m) \cap Range(last.arg[2])) = 1

\* the notes search_notes(folder_id, query, tag_ids) returns
found(folder_id, query, tag_ids) ==
    UNION {Range(r) : r \in search_notes(folder_id, query, tag_ids).results}

\* C15: the notes search_notes(folder_id, query, tag_ids) returns are those returned
\* for the folder alone, and for the query alone, and for the tags alone.
C15_FiltersCombineWithAnd ==
    Searched =>
        Range(last.ret) = found(last.id, <<>>, <<>>)
                          \cap found(NULL, last.arg[1], <<>>)
                          \cap found(NULL, <<>>, last.arg[2])

\* a search with all three filters returned one note; the other note passes the
\* folder and the tag filter and fails the query
C15_Witness ==
    /\ Searched
    /\ last.id # NULL /\ last.arg[1] # <<>> /\ last.arg[2] # <<>>
    /\ Len(last.ret) = 1
    /\ \E m \in DOMAIN notes :
          /\ m \in found(last.id, <<>>, <<>>) \cap found(NULL, <<>>, last.arg[2])
          /\ m \notin found(NULL, last.arg[1], <<>>)

\* the words of phrase stand side by side and in order in text
HasPhrase(text, phrase) ==
    \E at \in 0..(Len(text) - Len(phrase)) : SubSeq(text, at + 1, at + Len(phrase)) = phrase

\* C16: a query with a space is matched as a phrase: only notes whose title or whose
\* content holds the query's words side by side and in order are returned. A query
\* without a space is matched as a prefix: every note with a word in its title or
\* content that starts with the query (letter case aside) is returned.
C16_PhraseOrPrefix ==
    (Searched /\ last.arg[1] # <<>>) =>
        LET query == last.arg[1]
        IN  IF " " \in Range(query)
            THEN \A n \in Range(last.ret) :
                    \/ HasPhrase(tokens(notes[n].title), tokens(query))
                    \/ HasPhrase(tokens(notes[n].content), tokens(query))
            ELSE (last.id = NULL /\ last.arg[2] = <<>>) =>
                    \A n \in DOMAIN notes :
                       (\E word \in Range(tokens(notes[n].title))
                                      \cup Range(tokens(notes[n].content)) :
                            IsPrefix(Lower(query), word))
                       => n \in Range(last.ret)

\* the query a returned the note whose only word with that start is ab
C16_Witness ==
    /\ Searched
    /\ last.arg[1] = <<"a">>
    /\ \E n \in Range(last.ret) :
          notes[n].title = <<>> /\ notes[n].content = <<"a", "b">>

\* C17: "no folder" is a folder filter of its own: some folder argument restricts
\* search_notes to exactly the notes whose folder reference is null, as the id of a
\* folder restricts it to the notes of that folder.
C17_NoFolderIsFilterable ==
    /\ \A f \in DOMAIN folders :
          found(f, <<>>, <<>>) = {n \in DOMAIN notes : notes[n].folder_id = f}
    /\ \E f \in FolderRefs :
          found(f, <<>>, <<>>) = {n \in DOMAIN notes : notes[n].folder_id = NULL}

C20_SearchNeverRaises ==
    last.op = "search_notes" =>
        /\ last.ok
        /\ (last.arg[1] # <<>> /\ fts5_parse(fts_query(last.arg[1])).error)
           => last.ret = <<>>

\* the name with A-Z folded to a-z, as code points
FoldedCodes(name) == [i \in 1..Len(name) |-> Code(LowerChar(name[i]))]

\* k comes no later than m in dictionary order
RECURSIVE LexLeq(_, _)
LexLeq(k, m) ==
    IF k = <<>> THEN TRUE
    ELSE IF m = <<>> THEN FALSE
    ELSE IF Head(k) # Head(m) THEN Head(k) < Head(m)
    ELSE LexLeq(Tail(k), Tail(m))

\* C21: each note search_notes returns carries its full tag list: the 'tags' field is
\* a list list_note_tags(note id) gives in the same state, it holds every tag linked to
\* the note (not only those of the filter) once, and it is ordered by name without
\* regard to letter case.
C21_ResultsCarryAllTags ==
    Searched =>
        /\ Len(last.tags) = Len(last.ret)
        /\ \A i \in 1..Len(last.ret) :
              LET row == last.tags[i]
              IN  /\ row \in list_note_tags_rows(last.ret[i])
                  /\ {t.id : t \in Range(row)} = tags_on(last.ret[i])
                  /\ Len(row) = Cardinality(tags_on(last.ret[i]))
                  /\ \A t \in Range(row) : t.name = tags[t.id]
                  /\ \A a, b \in 1..Len(row) :
                        a < b => LexLeq(FoldedCodes(row[a].name), FoldedCodes(row[b].name))

\* a search by one tag returned a note with two tags, a before B
C21_Witness ==
    /\ Searched
    /\ Len(last.arg[2]) = 1
    /\ \E i \in 1..Len(last.ret) :
          /\ Len(last.tags[i]) = 2
          /\ last.tags[i][1].name = <<"a">>
          /\ last.tags[i][2].name = <<"B">>

----------------------------------------------------------------------------
(* Notes and their timestamps *)

\* C22: create_note yields a note with the given title (empty by default), empty
\* content, no tags, and created_at = updated_at = the time of the call.
C22_CreatedNote ==
    [][(last'.op = "create_note" /\ last'.ok /\ notes_seq' # notes_seq) =>
          LET n == last'.id
          IN  /\ n \in DOMAIN notes' /\ n \notin DOMAIN notes
              /\ notes'[n].title = last'.arg
              /\ notes'[n].content = <<>>
              /\ \A l \in note_tags' : l[1] # n
              /\ notes'[n].created_at = now
              /\ notes'[n].updated_at = now]_vars

\* a titled note was created after the clock moved, while a tag and a link exist
C22_Witness ==
    /\ last.op = "create_note" /\ last.ok
    /\ last.arg = <<"a">>
    /\ notes[last.id].created_at = MaxTime
    /\ note_tags # {}

\* C23: created_at is immutable: no step changes the created_at of a note that exists
\* before and after it.
C23_CreatedAtImmutable ==
    [][\A n \in DOMAIN notes \cap DOMAIN notes' :
          notes'[n].created_at = notes[n].created_at]_vars

\* a note created at time 0 was updated at a later time
C23_Witness ==
    /\ last.op = "update_note" /\ last.ok
    /\ last.id \in DOMAIN notes
    /\ notes[last.id].updated_at > notes[last.id].created_at
    /\ notes[last.id].content # <<>>

\* C24: every update_note on an existing note makes its updated_at strictly greater
\* than it was before the call, also right after the creation or another update.
C24_UpdatedAtStrictlyIncreases ==
    [][(last'.op = "update_note" /\ last'.ok /\ now' = now
          /\ last'.id \in DOMAIN notes /\ notes' # notes) =>
          notes'[last'.id].updated_at > notes[last'.id].updated_at]_vars

\* C25: move_note(n, f) on an existing note sets its folder_id to f and its updated_at
\* to the current time, and leaves its title, content, created_at, tag links and index
\* entry, and every other note, unchanged.
C25_MoveRefreshesOnlyUpdatedAt ==
    [][\A n \in DOMAIN notes, f \in {NULL} \cup DOMAIN folders :
          move_note(n, f) =>
             /\ last'.ok
             /\ DOMAIN notes' = DOMAIN notes
             /\ notes'[n] = [notes[n] EXCEPT !.folder_id = f, !.updated_at = now]
             /\ \A m \in DOMAIN notes \ {n} : notes'[m] = notes[m]
             /\ note_tags' = note_tags /\ tags' = tags
             /\ notes_fts' = notes_fts]_vars

\* a tagged note with text, created at time 0, was moved into the folder later
C25_Witness ==
    /\ last.op = "move_note" /\ last.ok
    /\ last.id \in DOMAIN notes
    /\ notes[last.id].folder_id \in DOMAIN folders
    /\ notes[last.id].content # <<>>
    /\ notes[last.id].created_at < notes[last.id].updated_at
    /\ names_of(last.id) # {}
    /\ Cardinality(DOMAIN notes) = 2

----------------------------------------------------------------------------
(* Failures *)

\* C26: update_note, move_note and delete_note with the id of no note, and
\* rename_folder and delete_folder with the id of no folder, report an error to the
\* caller and change nothing.
C26_MissingIdIsAnError ==
    [][(\/ /\ last'.op \in {"update_note", "move_note", "delete_note"}
           /\ last'.id \notin DOMAIN notes
        \/ /\ last'.op \in {"rename_folder", "delete_folder"}
           /\ last'.id \notin DOMAIN folders)
       => (~last'.ok /\ UNCHANGED tables)]_vars

\* C27: set_note_tags with the id of no note has no partial effect: whether it raises
\* or returns, the tags and links every later read sees, and the next commit persists,
\* are those from before the call.
C27_MissingNoteNoPartialEffect ==
    [][(last'.op = "set_note_tags" /\ last'.id \notin DOMAIN notes) =>
          (tags' = tags /\ note_tags' = note_tags)]_vars

\* what all_tags() returns on tags and links v
AllTagsOf(v) ==
    {[id |-> t, name |-> v.tags[t],
      usage_count |-> Cardinality({l \in v.note_tags : l[2] = t})] : t \in DOMAIN v.tags}

\* C28: set_note_tags is atomic for its observers: while a call (begun with nothing
\* uncommitted) is in progress, a read by another thread returns what it would have
\* returned before the call or after it, and what is persisted, should the process
\* stop, is the state before or after it.
C28_SetTagsAtomic ==
    (pc.at # "idle" /\ pc.before = pc.committed) =>
        /\ last.op = "all_tags" => last.ret \in {AllTagsOf(pc.before), AllTagsOf(pc.after)}
        /\ disk \in {pc.committed, pc.after}

----------------------------------------------------------------------------
(* Startup *)

\* C29: when notes exist and the index is empty at startup, the index is rebuilt
\* before the constructor returns: the first search finds every note by its title.
C29_EmptyIndexRebuiltAtStartup ==
    [][(startup /\ DOMAIN notes # {} /\ notes_fts = EmptyBag) =>
          /\ notes_fts' = rebuild(notes, DOMAIN notes)
          /\ \A n \in DOMAIN notes :
                notes[n].title # <<>> => n \in found(NULL, notes[n].title, <<>>)']_vars

\* C30: whatever the index held before startup, after startup completes every live
\* note has exactly one index entry, matching its title and content, there is no
\* other entry, and no error was raised.
C30_StartupHealsIndex ==
    last.op = "Database" =>
        /\ last.ok
        /\ \A n \in DOMAIN notes :
              CopiesIn(<<n, notes[n].title, notes[n].content>>, notes_fts) = 1
        /\ \A e \in BagToSet(notes_fts) :
              /\ e[1] \in DOMAIN notes
              /\ e = <<e[1], notes[e[1]].title, notes[e[1]].content>>
              /\ CopiesIn(e, notes_fts) = 1

----------------------------------------------------------------------------
(* Saving notes *)

\* C31: repeated update_note calls do not corrupt a note: after every update_note that
\* returns on an existing note n, the title, content and folder of n are the arguments
\* of that call and the index holds exactly one entry of n, with that title and
\* content; and a call whose arguments are the values n already has changes nothing
\* but, possibly, n's updated_at.
C31_LatestUpdateWins ==
    [][\A n \in DOMAIN notes, title \in Titles, content \in Contents, f \in FolderRefs :
          (update_note(n, title, content, f) /\ last'.ok) =>
             /\ notes'[n].title = title
             /\ notes'[n].content = content
             /\ notes'[n].folder_id = f
             /\ CopiesIn(<<n, title, content>>, notes_fts') = 1
             /\ \A e \in BagToSet(notes_fts') : e[1] = n => e = <<n, title, content>>
             /\ (notes[n].title = title /\ notes[n].content = content
                   /\ notes[n].folder_id = f) =>
                   /\ notes' = [notes EXCEPT ![n].updated_at = notes'[n].updated_at]
                   /\ UNCHANGED <<folders, folders_seq, notes_seq, tags, tags_seq,
                                  note_tags, notes_fts>>]_vars

\* a note with text, filed in a folder, was saved twice in a row with the same text,
\* the second time after the clock moved
C31_Witness ==
    /\ last.op = "update_note" /\ last.ok /\ last.again
    /\ last.id \in DOMAIN notes
    /\ last.arg = <<<<"a">>, <<"b">>>>
    /\ notes[last.id].folder_id # NULL
    /\ notes[last.id].updated_at > notes[last.id].created_at
    /\ Cardinality(DOMAIN notes) = 2

----------------------------------------------------------------------------
(* The debounced autosave *)

\* every Debouncer.call so far was made before the Timer of the call before it fired
burst ==
    \A i, j \in DOMAIN trace : (i < j /\ trace[i].ev = "fire") => trace[j].ev # "call"

\* the entry of trace of the latest Debouncer.call
last_call == trace[CHOOSE i \in events("call") : trace[i].timer = timer_of_last_call]

\* C35: Debouncer coalesces a burst: as long as every call was made before the timer
\* of the call before it fired, the wrapped function is invoked at most once, by the
\* timer of the last call, with the arguments of the last call, and only after that
\* timer has waited its whole delay; no cancelled timer invokes it; and once the calls
\* have ended the function has been invoked exactly once.
C35_BurstCoalesced ==
    /\ [](burst =>
            /\ Cardinality(events("fn")) <= 1
            /\ \A i \in events("fn") \cup events("fire") :
                  /\ trace[i].timer = timer_of_last_call
                  /\ trace[i].args = last_call.args
            /\ \A t \in DOMAIN timers :
                  /\ t # timer_of_last_call => timers[t].at # "wait"
                  /\ timers[t].at = "run" => timers[t].left = 0)
    /\ <>[]((burst /\ timer_of_last_call > 0) => Cardinality(events("fn")) = 1)

\* three calls in a burst, the last with another argument than the first, and the
\* function was invoked
C35_Witness ==
    /\ burst
    /\ timer_of_last_call = MaxCalls
    /\ trace[1].args # last_call.args
    /\ events("fn") # {}

\* C32: the autosave never writes one note's editor text into another note: whenever
\* _save_current_note calls update_note, the title and content it passes were read
\* from the editor fields while they held the note whose id it passes (or no note's
\* text at all), whatever _select_note was doing on the UI thread.
C32_SaveWritesOwnText ==
    [][\A t \in 1..MaxCalls :
          save_current_note_update(t) =>
             timers[t].frame.of \in {NULL, timers[t].frame.note_id}]_vars

\* the editor text the user last left in note n is text, and the stored note has it
edited(n, text) == n \in DOMAIN app.typed /\ app.typed[n] = text

persisted(n, text) ==
    n \in DOMAIN notes /\ notes[n].title = text[1] /\ notes[n].content = text[2]

\* C33: no edit is lost by the autosave: the text a change of the editor fields left
\* in note n while n was selected is eventually the stored title and content of n,
\* unless the user changes the text of n again before that, also when another note
\* is selected before the debounce timer fires.
C33_EveryEditPersisted ==
    \A n \in NoteArgs, text \in Titles \X Contents :
       edited(n, text) ~> (persisted(n, text) \/ ~edited(n, text))

\* C34: saving the note being edited does not move it: when _save_current_note calls
\* update_note on an existing note n, the folder_id of n after the call is its
\* folder_id before the call, whichever folder or "all notes" is selected in the
\* folder list.
C34_SaveKeepsFolder ==
    [][\A t \in 1..MaxCalls :
          (save_current_note_update(t) /\ timers[t].frame.note_id \in DOMAIN notes) =>
             notes'[timers[t].frame.note_id].folder_id
                = notes[timers[t].frame.note_id].folder_id]_vars

----------------------------------------------------------------------------
(* Tags of other notes *)

\* C36: set_note_tags(n, names) does not disturb other notes: for every note m other
\* than n the links of m, and so the set of tag names linked to m, are the same
\* before and after the call, whether it returns or raises; and every tag the call
\* deletes is one no note links to before or after it, except n before.
C36_OtherNotesUntouched ==
    [][last'.op = "set_note_tags" =>
          /\ \A m \in DOMAIN notes \ {last'.id} :
                /\ {l \in note_tags' : l[1] = m} = {l \in note_tags : l[1] = m}
                /\ names_of(m)' = names_of(m)
          /\ \A t \in DOMAIN tags \ DOMAIN tags' :
                /\ \A l \in note_tags : l[2] = t => l[1] = last'.id
                /\ \A l \in note_tags' : l[2] # t]_vars

\* a note dropped two tags, one of them still linked to another note: that one stayed,
\* the other was swept
C36_Witness ==
    /\ last.op = "set_note_tags" /\ last.ok
    /\ last.id \in DOMAIN notes
    /\ \E m \in DOMAIN notes \ {last.id} :
          /\ names_of(m) \cap last.had # {}
          /\ names_of(m) \cap names_of(last.id) = {}
    /\ \E name \in last.had : \A t \in DOMAIN tags : tags[t] # name

----------------------------------------------------------------------------
(* Repeated tag ids *)

\* tag_ids with every id kept once, at its first place
RECURSIVE without_repeats(_)
without_repeats(list) ==
    IF list = <<>> THEN <<>>
    ELSE LET front == without_repeats(SubSeq(list, 1, Len(list) - 1))
             x == list[Len(list)]
         IN  IF x \in Range(front) THEN front ELSE Append(front, x)

\* C37: the tag filter of search_notes depends only on the set of ids in tag_ids:
\* the notes returned for a tag_ids list are the notes returned for that list with
\* its repeated ids removed.
C37_RepeatedTagIdsIgnored ==
    Searched =>
        Range(last.ret) = found(last.id, last.arg[1], without_repeats(last.arg[2]))

----------------------------------------------------------------------------
(* The AI client *)

\* C38: _chat ends after a bounded number of attempts: its attempts run over at most
\* Rounds rounds of the list [current model] + fallback models, no model twice in a
\* round; when it ends it returns, either the text of the attempt that answered,
\* with model set to the model of that attempt and last_error to None, or None
\* with last_error not None.
C38_ChatEndsSettled ==
    [][/\ Len(api'.tried) <= Rounds * (1 + Len(FALLBACK_MODELS))
       /\ \A i, j \in DOMAIN api'.tried :
             /\ api'.tried[i][1] \in 1..Rounds
             /\ api'.tried[i][2] \in {PRIMARY_MODEL} \cup Range(FALLBACK_MODELS)
             /\ api'.tried[i] = api'.tried[j] => i = j
       /\ (api'.chat = NoChat /\ (chat_begin \/ \E outcome \in Outcomes : chat_once(outcome)))
             => /\ api'.returned \in {"text", "None"}
                /\ api'.returned = "text" =>
                      /\ api'.tried # <<>>
                      /\ api'.model = api'.tried[Len(api'.tried)][2]
                      /\ api'.last_error = None
                /\ api'.returned = "None" => api'.last_error # None]_vars

----------------------------------------------------------------------------
(* The panel splitter *)

\* C39: after normalize() or apply_absolute(L, M, R), for any panel values, left is
\* at least MIN_LEFT, mid at least MIN_MID, right at least MIN_RIGHT, and the three
\* add up to TOTAL_FLEX.
C39_PanelsFit ==
    [][(normalize \/ \E L, M, R \in PanelValues : apply_absolute(L, M, R)) =>
          /\ splitter'.left >= MIN_LEFT
          /\ splitter'.mid >= MIN_MID
          /\ splitter'.right >= MIN_RIGHT
          /\ splitter'.left + splitter'.mid + splitter'.right = TOTAL_FLEX]_vars

====
